---- MODULE Spec2Model ----
(***************************************************************************)
(* A model of generate.py, the interactive OpenWebUI Docker Compose        *)
(* generator: credential resolution (load_env_vars, get_openai_key),       *)
(* reference loading (load_documentation), the conversation loop with its  *)
(* FINALIZE step (generate_docker_compose) and the process exit (main).    *)
(*                                                                         *)
(* Text is modelled as a sequence of atoms.  An atom is one character, or  *)
(* one word that the program only ever treats as a whole (the name         *)
(* OPENAI_API_KEY, a triple backtick, the tag docker-compose, the sentinel *)
(* phrase).  Python's str methods are modelled on these sequences by what  *)
(* they compute: strip, split, lower, the in operator.                     *)
(***************************************************************************)
EXTENDS Integers, Sequences, FiniteSets, TLC

VARIABLES
    pc,           \* where the process is: start, prompt_key, input, request,
                  \* final_request, show_prompt, exited
    environ,      \* os.environ["OPENAI_API_KEY"], an optional text
    dotenv,       \* the file .env, an optional sequence of lines
    fs,           \* the four reference files, each an optional text
    reference,    \* args.reference
    api_key,      \* the credential main() holds, an optional text
    docs,         \* what load_documentation returned
    reads,        \* the reference files opened so far
    messages,     \* the transcript
    generated,    \* the two output files under generated/
    user_input,   \* the line the last input("You: ") returned
    generation_response,  \* the final reply, once received
    extracted,    \* docker_compose_content and env_content of FINALIZE
    trace,        \* the observable events of the run, in order
    exit_code     \* the process exit status, -1 while running

vars == <<pc, environ, dotenv, fs, reference, api_key, docs, reads,
          messages, user_input, generation_response, generated, extracted,
          trace, exit_code>>

(***************************************************************************)
(* Bounds of the model.                                                    *)
(***************************************************************************)
MaxValLen == 3      \* characters in a dotenv value
MaxPre == 1         \* dotenv lines before the first OPENAI_API_KEY line
MaxTurns == 2       \* user turns sent to the model in one run
MaxReplyLen == 3    \* atoms in a final reply, in the whole-run specification
MaxExtractLen == 5  \* atoms in a final reply, in the extraction specification

(***************************************************************************)
(* Optional values: None, or Some(text).                                   *)
(***************************************************************************)
None == [set |-> FALSE, val |-> <<>>]
Some(t) == [set |-> TRUE, val |-> t]
\* Python truthiness of an optional text: None and "" are falsy.
Truthy(o) == o.set /\ o.val # <<>>

\* All sequences over S of length at most n.
SeqsUpTo(S, n) == UNION {[1..k -> S] : k \in 0..n}

(***************************************************************************)
(* Python str operations on sequences of atoms.                            *)
(***************************************************************************)
Whitespace == {" ", "\n"}
Quotes == {"\"", "'"}

RECURSIVE LStrip(_, _)
LStrip(s, chars) ==
    IF s # <<>> /\ Head(s) \in chars THEN LStrip(Tail(s), chars) ELSE s

RECURSIVE RStrip(_, _)
RStrip(s, chars) ==
    IF s # <<>> /\ s[Len(s)] \in chars
    THEN RStrip(SubSeq(s, 1, Len(s) - 1), chars)
    ELSE s

\* s.strip(chars): every leading and every trailing atom of chars is removed.
StripChars(s, chars) == RStrip(LStrip(s, chars), chars)

\* s.strip()
Strip(s) == StripChars(s, Whitespace)

\* s.startswith(p)
StartsWith(s, p) == Len(s) >= Len(p) /\ SubSeq(s, 1, Len(p)) = p

\* s.find(sep): the least index at which sep occurs in s, 0 when it does not.
Find(s, sep) ==
    LET hits == {i \in 1..(Len(s) - Len(sep) + 1) :
                    SubSeq(s, i, i + Len(sep) - 1) = sep}
    IN  IF hits = {} THEN 0 ELSE CHOOSE i \in hits : \A j \in hits : i <= j

\* sep in s
Contains(s, sep) == Find(s, sep) # 0

\* s.split(sep): the parts of s between the non-overlapping occurrences of
\* sep, found left to right.
RECURSIVE Split(_, _)
Split(s, sep) ==
    LET i == Find(s, sep)
    IN  IF i = 0
        THEN <<s>>
        ELSE <<SubSeq(s, 1, i - 1)>> \o Split(SubSeq(s, i + Len(sep), Len(s)), sep)

\* s.split(sep, 1): at most one split, at the first occurrence of sep.
Split1(s, sep) ==
    LET i == Find(s, sep)
    IN  IF i = 0
        THEN <<s>>
        ELSE <<SubSeq(s, 1, i - 1), SubSeq(s, i + Len(sep), Len(s))>>

\* c.lower() for the letters the model uses.
LowerChar(c) ==
    CASE c = "E" -> "e" [] c = "X" -> "x" [] c = "I" -> "i" [] c = "T" -> "t"
      [] c = "Q" -> "q" [] c = "U" -> "u" [] c = "Y" -> "y" [] c = "S" -> "s"
      [] OTHER -> c

\* s.lower()
Lower(s) == [i \in 1..Len(s) |-> LowerChar(s[i])]

(***************************************************************************)
(* load_env_vars: the first OPENAI_API_KEY line of .env.                   *)
(***************************************************************************)
KEY == "OPENAI_API_KEY"

\* A variant that strips double quotes only.
StripQuotesDouble(value) == StripChars(value, {"\""})

\* value.strip('"\'')
StripQuotes(value) == StripChars(value, Quotes)

\* The body of the for loop over the lines of the file.  The result is
\* [raised, value]: raised when the unpacking of split('=', 1) fails
\* (ValueError), value the returned value or None.
RECURSIVE ScanLines(_)
ScanLines(lines) ==
    IF lines = <<>>
    THEN [raised |-> FALSE, value |-> None]
    ELSE LET line == Head(lines)
         IN  IF Strip(line) # <<>> /\ ~StartsWith(line, <<"#">>)
             THEN LET kv == Split1(Strip(line), <<"=">>)
                  IN  IF Len(kv) < 2
                      THEN [raised |-> TRUE, value |-> None]
                      ELSE IF kv[1] = <<KEY>>
                           THEN [raised |-> FALSE,
                                 value |-> Some(StripQuotes(kv[2]))]
                           ELSE ScanLines(Tail(lines))
             ELSE ScanLines(Tail(lines))

load_env_vars(file) ==
    IF file.set THEN ScanLines(file.val)
    ELSE [raised |-> FALSE, value |-> None]

(***************************************************************************)
(* load_documentation: the two reference texts.                            *)
(***************************************************************************)
\* The files, by the paths of lines 50, 51, 60 and 61.
StaticFiles == {"static_env", "static_sample"}
RepoFiles == {"repo_env", "repo_sample"}

\* open(path).read() of a file that exists.
ReadFile(f, path) == f[path].val

\* A variant that goes to the fallback files when --reference repo-docs is given.
load_documentation_selected(f) ==
    IF reference = "static" /\ f["static_env"].set /\ f["static_sample"].set
    THEN [env_vars_content |-> ReadFile(f, "static_env"),
          sample_compose_content |-> ReadFile(f, "static_sample"),
          opened |-> {"static_env", "static_sample"}]
    ELSE [env_vars_content |->
              IF f["repo_env"].set THEN ReadFile(f, "repo_env") ELSE <<>>,
          sample_compose_content |->
              IF f["repo_sample"].set THEN ReadFile(f, "repo_sample") ELSE <<>>,
          opened |-> {p \in RepoFiles : f[p].set}]

load_documentation(f) ==
    IF f["static_env"].set /\ f["static_sample"].set
    THEN [env_vars_content |-> ReadFile(f, "static_env"),
          sample_compose_content |-> ReadFile(f, "static_sample"),
          opened |-> {"static_env", "static_sample"}]
    ELSE [env_vars_content |->
              IF f["repo_env"].set THEN ReadFile(f, "repo_env") ELSE <<>>,
          sample_compose_content |->
              IF f["repo_sample"].set THEN ReadFile(f, "repo_sample") ELSE <<>>,
          opened |-> {p \in RepoFiles : f[p].set}]

(***************************************************************************)
(* The transcript.                                                         *)
(***************************************************************************)
EnvDocBudget == 4000
SampleBudget == 2000

\* s[:n]
Take(s, n) == SubSeq(s, 1, IF Len(s) < n THEN Len(s) ELSE n)

\* The f-string of lines 81-99.
system_prompt(env_vars_content, sample_compose_content) ==
    <<"You are an expert on OpenWebUI configuration and Docker Compose.">>
        \o Take(env_vars_content, EnvDocBudget) \o <<"... [truncated]">>
        \o <<"Here's a sample Docker Compose file for OpenWebUI:">>
        \o Take(sample_compose_content, SampleBudget) \o <<"... [truncated]">>

initial_message ==
    <<"I'll help you generate a customized Docker Compose file for OpenWebUI.">>

final_prompt == <<"Based on our conversation, please generate:">>

Msg(role, content) == [role |-> role, content |-> content]

\* A variant that inserts at the front.
PrependMessage(msgs, m) == <<m>> \o msgs

\* messages.append(m)
AppendMessage(msgs, m) == Append(msgs, m)

\* messages after lines 102 and 110.
InitialMessages(d) ==
    AppendMessage(
        <<Msg("system", system_prompt(d.env_vars_content, d.sample_compose_content))>>,
        Msg("assistant", initial_message))

(***************************************************************************)
(* The loop's two tests on text.                                           *)
(***************************************************************************)
ExitKeywords == {<<"e", "x", "i", "t">>, <<"q", "u", "i", "t">>, <<"q">>}

\* A variant that compares without lower().
IsExitKeywordCased(line) == line \in ExitKeywords

\* user_input.lower() in ['exit', 'quit', 'q']
IsExitKeyword(line) == Lower(line) \in ExitKeywords

Sentinel == "I'll now generate your Docker Compose file"

\* A variant that compares the whole reply with the phrase.
HasSentinelWhole(reply) == reply = <<Sentinel>>

\* A variant that finalizes after any reply.
HasSentinelAlways(reply) == TRUE

\* "I'll now generate your Docker Compose file" in ai_response
HasSentinel(reply) == Contains(reply, <<Sentinel>>)

(***************************************************************************)
(* Extraction of the fenced blocks from the final reply.                   *)
(***************************************************************************)
\* The atom for three backticks in a row.
FENCE == "<triple-backtick>"
DockerComposeMarker == <<FENCE, "docker-compose">>
EnvMarker == <<FENCE, "env">>
YamlMarker == <<FENCE, "yaml">>

\* A variant that takes the part after the last marker.
ExtractBlockLast(r, marker) ==
    IF Contains(r, marker)
    THEN LET parts == Split(r, marker)
         IN  IF Len(parts) > 1
             THEN Strip(Split(parts[Len(parts)], <<FENCE>>)[1])
             ELSE <<>>
    ELSE <<>>

\* if marker in r: parts = r.split(marker);
\*     if len(parts) > 1: content = parts[1].split(FENCE)[0].strip()
ExtractBlock(r, marker) ==
    IF Contains(r, marker)
    THEN LET parts == Split(r, marker)
         IN  IF Len(parts) > 1
             THEN Strip(Split(parts[2], <<FENCE>>)[1])
             ELSE <<>>
    ELSE <<>>

\* Lines 164-181.
Extract(r) ==
    LET dc == ExtractBlock(r, DockerComposeMarker)
        env == ExtractBlock(r, EnvMarker)
    IN  [docker_compose_content |->
             IF dc = <<>> /\ Contains(r, YamlMarker)
             THEN ExtractBlock(r, YamlMarker)
             ELSE dc,
         env_content |-> env]

\* A variant that writes the environment file unconditionally.
WriteFilesAlways(g, x) ==
    [compose |-> Some(x.docker_compose_content), env |-> Some(x.env_content)]

\* Lines 184-192: the files after the writes.
WriteFiles(g, x) ==
    [compose |-> Some(x.docker_compose_content),
     env |-> IF x.env_content # <<>> THEN Some(x.env_content) ELSE g.env]

\* The events of lines 184-197.
WriteEvents(x) ==
    <<"write_compose">>
        \o (IF x.env_content # <<>> THEN <<"write_env", "print_env_saved">> ELSE <<>>)
        \o <<"print_generated">>

(***************************************************************************)
(* What the blocking calls can give the program.  input() returns a line,  *)
(* raises EOFError when standard input is at its end, or is interrupted    *)
(* (KeyboardInterrupt).  openai.chat.completions.create returns a reply,   *)
(* raises an Exception, or is interrupted.                                 *)
(***************************************************************************)
Line(t) == [kind |-> "line", text |-> t]
Reply(t) == [kind |-> "reply", text |-> t]
Eof == [kind |-> "eof", text |-> <<>>]
Raise == [kind |-> "raise", text |-> <<>>]
Interrupt == [kind |-> "interrupt", text |-> <<>>]

(***************************************************************************)
(* The ways the process ends.                                              *)
(***************************************************************************)
\* The process ends with status code after the events.
Halt(code, events) ==
    /\ pc' = "exited"
    /\ exit_code' = code
    /\ trace' = trace \o events

\* An exception nothing catches: the interpreter prints the traceback and
\* exits with status 1.
Uncaught(events) == Halt(1, events \o <<"traceback">>)

\* Lines 240-242: except KeyboardInterrupt: print(...); sys.exit(0)
Interrupted(events) == Halt(0, events \o <<"print_interrupted">>)

\* A variant that goes back to the prompt after an error (continue for break).
HandleErrorRetry(events) ==
    /\ pc' = "input"
    /\ exit_code' = exit_code
    /\ trace' = trace \o events \o <<"print_error">>

\* Lines 211-213: except Exception as e: print(f"Error: {e}"); break, after
\* which generate_docker_compose and main return.
HandleError(events) == Halt(0, events \o <<"print_error">>)

\* Lines 75-111: the key is stored, the documentation loaded, the transcript
\* seeded and the greeting printed; the loop then waits for the user.
StartConversation(key, events) ==
    LET d == load_documentation(fs)
    IN  /\ api_key' = key
        /\ docs' = [env_vars_content |-> d.env_vars_content,
                    sample_compose_content |-> d.sample_compose_content]
        /\ reads' = reads \cup d.opened
        /\ messages' = InitialMessages(d)
        /\ pc' = "input"
        /\ exit_code' = exit_code
        /\ trace' = trace \o events \o <<"print_greeting">>

\* The user turns sent to the model so far.
Turns == Cardinality({i \in 1..Len(trace) : trace[i] = "request"})

(***************************************************************************)
(* main() up to the first blocking call: lines 215-228 and 35-39, then     *)
(* 230-235 and 75-115 when a key was found.                                *)
(***************************************************************************)
Main_Start ==
    /\ pc = "start"
    /\ UNCHANGED <<dotenv, fs, reference, user_input, generation_response,
                   generated, extracted>>
    /\ IF Truthy(environ)
       THEN /\ environ' = environ
            /\ StartConversation(environ, <<>>)
       ELSE LET r == load_env_vars(dotenv)
            IN  IF r.raised
                THEN /\ Uncaught(<<>>)
                     /\ UNCHANGED <<environ, api_key, docs, reads, messages>>
                ELSE /\ environ' = IF r.value.set THEN r.value ELSE environ
                     /\ IF Truthy(r.value)
                        THEN StartConversation(r.value, <<>>)
                        ELSE /\ pc' = "prompt_key"
                             /\ trace' = trace \o <<"print_key_not_found">>
                             /\ UNCHANGED <<api_key, docs, reads, messages,
                                            exit_code>>

(***************************************************************************)
(* The answer to "Please enter your OpenAI API key: ": lines 39-42, then   *)
(* 230-235.                                                                *)
(***************************************************************************)
PromptKey(answers) ==
    /\ pc = "prompt_key"
    /\ UNCHANGED <<dotenv, fs, reference, user_input, generation_response,
                   generated, extracted>>
    /\ \E a \in answers :
         CASE a.kind = "line" ->
                LET k == Strip(a.text)
                IN  /\ environ' = Some(k)
                    /\ IF k = <<>>
                       THEN /\ api_key' = Some(k)
                            /\ Halt(1, <<"read_key", "print_key_required">>)
                            /\ UNCHANGED <<docs, reads, messages>>
                       ELSE StartConversation(Some(k), <<"read_key">>)
           [] a.kind = "eof" ->
                /\ Uncaught(<<>>)
                /\ UNCHANGED <<environ, api_key, docs, reads, messages>>
           [] OTHER ->
                /\ Interrupted(<<>>)
                /\ UNCHANGED <<environ, api_key, docs, reads, messages>>

(***************************************************************************)
(* One line from the user: lines 115-124, up to the request being sent.    *)
(***************************************************************************)
ReadUserLine(inputs) ==
    /\ pc = "input"
    /\ UNCHANGED <<environ, dotenv, fs, reference, api_key, docs, reads,
                   generation_response, generated, extracted>>
    /\ \E a \in inputs :
         /\ (a.kind = "line" /\ ~IsExitKeyword(a.text)) => Turns < MaxTurns
         /\ CASE a.kind = "line" ->
                  /\ user_input' = Some(a.text)
                  /\ IF IsExitKeyword(a.text)
                     THEN /\ Halt(0, <<"read_line", "print_exiting">>)
                          /\ UNCHANGED messages
                     ELSE /\ messages' = AppendMessage(messages, Msg("user", a.text))
                          /\ pc' = "request"
                          /\ trace' = trace \o <<"read_line", "request">>
                          /\ UNCHANGED exit_code
             [] a.kind = "eof" ->
                  /\ Uncaught(<<>>)
                  /\ UNCHANGED <<user_input, messages>>
             [] OTHER ->
                  /\ Interrupted(<<>>)
                  /\ UNCHANGED <<user_input, messages>>

(***************************************************************************)
(* The per-turn request returns: lines 124-155, up to the final request    *)
(* being sent when the reply holds the sentinel; lines 211-213 otherwise.  *)
(***************************************************************************)
ModelReply(outcomes) ==
    /\ pc = "request"
    /\ UNCHANGED <<environ, dotenv, fs, reference, api_key, docs, reads,
                   user_input, generation_response, generated, extracted>>
    /\ \E o \in outcomes :
         CASE o.kind = "reply" ->
                LET answered == AppendMessage(messages, Msg("assistant", o.text))
                IN  IF HasSentinel(o.text)
                    THEN /\ messages' = AppendMessage(answered, Msg("user", final_prompt))
                         /\ pc' = "final_request"
                         /\ trace' = trace \o <<"reply", "print_reply", "final_request">>
                         /\ UNCHANGED exit_code
                    ELSE /\ messages' = answered
                         /\ pc' = "input"
                         /\ trace' = trace \o <<"reply", "print_reply">>
                         /\ UNCHANGED exit_code
           [] o.kind = "raise" ->
                /\ HandleError(<<"raise">>)
                /\ UNCHANGED messages
           [] OTHER ->
                /\ Interrupted(<<>>)
                /\ UNCHANGED messages

(***************************************************************************)
(* The final request returns: lines 155-200, up to the yes/no question.    *)
(***************************************************************************)
FinalReply(outcomes) ==
    /\ pc = "final_request"
    /\ UNCHANGED <<environ, dotenv, fs, reference, api_key, docs, reads,
                   messages, user_input>>
    /\ \E o \in outcomes :
         CASE o.kind = "reply" ->
                LET x == Extract(o.text)
                IN  /\ generation_response' = Some(o.text)
                    /\ extracted' = x
                    /\ generated' = WriteFiles(generated, x)
                    /\ pc' = "show_prompt"
                    /\ trace' = trace \o <<"final_reply">> \o WriteEvents(x)
                    /\ UNCHANGED exit_code
           [] o.kind = "raise" ->
                /\ HandleError(<<"final_raise">>)
                /\ UNCHANGED <<generation_response, extracted, generated>>
           [] OTHER ->
                /\ Interrupted(<<>>)
                /\ UNCHANGED <<generation_response, extracted, generated>>

(***************************************************************************)
(* The answer to "Would you like to see the generated files?": lines       *)
(* 200-209.  The question is asked inside the try block, so an EOFError    *)
(* here is caught by lines 211-213.                                        *)
(***************************************************************************)
ShowFiles(answers) ==
    /\ pc = "show_prompt"
    /\ UNCHANGED <<environ, dotenv, fs, reference, api_key, docs, reads,
                   messages, user_input, generation_response, generated,
                   extracted>>
    /\ \E a \in answers :
         CASE a.kind = "line" ->
                IF Lower(a.text) \in {<<"y", "e", "s">>, <<"y">>}
                THEN Halt(0, <<"read_show", "print_files">>)
                ELSE Halt(0, <<"read_show">>)
           [] a.kind = "eof" -> HandleError(<<"show_eof">>)
           [] OTHER -> Interrupted(<<>>)

(***************************************************************************)
(* The state when main() is entered.                                       *)
(***************************************************************************)
InitWith(envs, files, trees, refs) ==
    /\ pc = "start"
    /\ environ \in envs
    /\ dotenv \in files
    /\ fs \in trees
    /\ reference \in refs
    /\ api_key = None
    /\ docs = [env_vars_content |-> <<>>, sample_compose_content |-> <<>>]
    /\ reads = {}
    /\ messages = <<>>
    /\ user_input = None
    /\ generation_response = None
    /\ generated = [compose |-> None, env |-> None]
    /\ extracted = [docker_compose_content |-> <<>>, env_content |-> <<>>]
    /\ trace = <<>>
    /\ exit_code = -1

(***************************************************************************)
(* The inputs of the whole-run specification.                              *)
(***************************************************************************)
KeyText == <<"k">>
EnvChoices == {None, Some(<<>>), Some(KeyText)}
KeyLineOf(v) == <<KEY, "=">> \o v
DotenvChoices == {None, Some(<<KeyLineOf(KeyText)>>), Some(<<<<"OTHER">>>>)}
Tree(se, ss, re, rs) ==
    [static_env |-> se, static_sample |-> ss, repo_env |-> re, repo_sample |-> rs]
StaticTree == Tree(Some(<<"E1">>), Some(<<"S1">>), None, None)
KeyAnswers == {Line(<<>>), Line(KeyText), Line(<<" ", "k", " ">>), Eof, Interrupt}
UserLines ==
    {<<"e", "x", "i", "t">>, <<"E", "X", "I", "T">>, <<"Q", "u", "i", "t">>,
     <<"q">>, <<"Q">>, <<"h", "i">>, <<"e", "x", "i", "t", " ">>}
UserInputs == {Line(t) : t \in UserLines} \cup {Eof, Interrupt}
TurnOutcomes ==
    {Reply(<<"Which database would you like?">>), Reply(<<"Great.", Sentinel>>),
     Raise, Interrupt}
ReplyAtoms == {FENCE, "docker-compose", "env", "yaml", "FOO", "\n"}
FinalOutcomes(n) == {Reply(t) : t \in SeqsUpTo(ReplyAtoms, n)} \cup {Raise, Interrupt}
ShowAnswers == {Line(<<"y">>), Line(<<"Y", "E", "S">>), Line(<<"n">>), Eof, Interrupt}

Init == InitWith(EnvChoices, DotenvChoices, {StaticTree}, {"static"})

Next ==
    \/ Main_Start
    \/ PromptKey(KeyAnswers)
    \/ ReadUserLine(UserInputs)
    \/ ModelReply(TurnOutcomes)
    \/ FinalReply(FinalOutcomes(MaxReplyLen))
    \/ ShowFiles(ShowAnswers)

Spec == Init /\ [][Next]_vars

(***************************************************************************)
(* The credential resolver alone, over many .env files, with               *)
(* OPENAI_API_KEY not set in the environment.                              *)
(***************************************************************************)
ValChars == {"v", "\"", "'", " "}
Values == SeqsUpTo(ValChars, MaxValLen)
OtherLines ==
    {<<>>, <<" ">>, <<"#", "c">>, <<"#", KEY, "=", "o">>, <<"OTHER", "=", "o">>,
     <<"OTHER">>, <<" ", "#", "c">>, <<" ", KEY, "=", "w">>, <<KEY, " ", "=", "w">>}
KeyTails ==
    {<<>>}
        \cup {<<KeyLineOf(v)>> : v \in Values}
        \cup {<<KeyLineOf(v), KeyLineOf(<<"z">>)>> : v \in Values}
DotenvFiles ==
    {None} \cup {Some(pre \o tail) : pre \in SeqsUpTo(OtherLines, MaxPre), tail \in KeyTails}

InitKey == InitWith({None}, DotenvFiles, {StaticTree}, {"static"})
NextKey == Main_Start \/ PromptKey(KeyAnswers)
SpecKey == InitKey /\ [][NextKey]_vars

(***************************************************************************)
(* The reference loader alone, over every combination of absent, empty and *)
(* non-empty reference files, under both --reference selections.           *)
(***************************************************************************)
FileChoices(t) == {None, Some(<<>>), Some(<<t>>)}
AllTrees ==
    {Tree(se, ss, re, rs) :
        se \in FileChoices("E1"), ss \in FileChoices("S1"),
        re \in FileChoices("E2"), rs \in FileChoices("S2")}

InitDoc == InitWith({Some(KeyText)}, {None}, AllTrees, {"static", "repo-docs"})
NextDoc == Main_Start
SpecDoc == InitDoc /\ [][NextDoc]_vars

(***************************************************************************)
(* One conversation that reaches FINALIZE, over longer final replies.      *)
(***************************************************************************)
InitExtract == InitWith({Some(KeyText)}, {None}, {StaticTree}, {"static"})
NextExtract ==
    \/ Main_Start
    \/ ReadUserLine({Line(<<"h", "i">>)})
    \/ ModelReply({Reply(<<"Great.", Sentinel>>)})
    \/ FinalReply(FinalOutcomes(MaxExtractLen))
SpecExtract == InitExtract /\ [][NextExtract]_vars

(***************************************************************************)
(* Vocabulary of the properties, stated without the operators that model   *)
(* the code.                                                               *)
(***************************************************************************)
Has(ev) == \E i \in 1..Len(trace) : trace[i] = ev
Count(ev) == Cardinality({i \in 1..Len(trace) : trace[i] = ev})
WriteEventNames == {"write_compose", "write_env"}
NothingWritten ==
    /\ \A i \in 1..Len(trace) : trace[i] \notin WriteEventNames
    /\ generated = [compose |-> None, env |-> None]

\* The states of the conversation loop.
Active == pc \in {"input", "request"}
Finalize == pc \in {"final_request", "show_prompt"}
Done == pc = "exited"

UpperChar(c) ==
    CASE c = "e" -> "E" [] c = "x" -> "X" [] c = "i" -> "I" [] c = "t" -> "T"
      [] c = "q" -> "Q" [] c = "u" -> "U"

\* line is exit, quit or q with each letter in either case.
IsExitAnyCase(line) ==
    \E w \in {<<"e", "x", "i", "t">>, <<"q", "u", "i", "t">>, <<"q">>} :
        /\ Len(line) = Len(w)
        /\ \A i \in 1..Len(w) : line[i] \in {w[i], UpperChar(w[i])}

\* The sentinel phrase occurs in the text.
SentinelIn(text) == \E i \in 1..Len(text) : text[i] = Sentinel

\* This step reads an exit keyword at the "You: " prompt.
ExitStep == pc = "input" /\ user_input'.set /\ IsExitAnyCase(user_input'.val)

\* This step receives a per-turn reply that holds the sentinel phrase.
SentinelStep ==
    /\ pc = "request"
    /\ Len(messages') > Len(messages)
    /\ messages'[Len(messages) + 1].role = "assistant"
    /\ SentinelIn(messages'[Len(messages) + 1].content)

\* This step catches an error of the per-turn model request, prints it and
\* ends the loop.
ErrorStep ==
    /\ pc = "request"
    /\ pc' = "exited"
    /\ trace'[Len(trace')] = "print_error"

\* This step ends the process while the loop is ACTIVE: the blocking call is
\* interrupted from the keyboard, or input() meets the end of standard input
\* and its EOFError is caught nowhere.
KilledStep ==
    /\ Active
    /\ pc' = "exited"
    /\ trace'[Len(trace')] \in {"print_interrupted", "traceback"}

\* C1 as stated: the loop leaves ACTIVE precisely when the user line is an
\* exit keyword or the assistant's reply contains the sentinel phrase.  The
\* death of the whole process (KilledStep) is not counted as a transition of
\* the loop here, which only favours the statement.
C1_OnlyExitOrSentinel ==
    [][/\ (Active /\ ~Active' /\ ~KilledStep) => (ExitStep \/ SentinelStep)
       /\ (ExitStep \/ SentinelStep) => (Active /\ ~Active')]_vars

\* C1, amended: the loop leaves ACTIVE precisely when the user line is an
\* exit keyword (to DONE), the assistant's reply contains the sentinel phrase
\* (to FINALIZE), the per-turn model request raises an error (caught,
\* printed, to DONE), or the process is ended at the blocking call by a
\* keyboard interruption or the end of standard input.
C1_LeavesActive ==
    [][/\ (Active /\ ~Active')
            <=> (ExitStep \/ SentinelStep \/ ErrorStep \/ KilledStep)
       /\ ExitStep => Done'
       /\ SentinelStep => Finalize']_vars

\* A run whose second turn ended on a model error, with no sentinel seen.
C1_Witness ==
    /\ Done
    /\ Count("request") = 2
    /\ trace[Len(trace)] = "print_error"
    /\ \A i \in 1..Len(messages) : ~SentinelIn(messages[i].content)

\* C2: when a model request raises, per-turn or FINALIZE, the error is caught
\* in the loop and printed exactly once, the loop is DONE with exit status 0,
\* no model request follows, and neither output file was written in the run.
C2_ErrorEndsRun ==
    \A i \in 1..Len(trace) :
        trace[i] \in {"raise", "final_raise"} =>
            /\ Len(trace) = i + 1
            /\ trace[i + 1] = "print_error"
            /\ Count("print_error") = 1
            /\ Done
            /\ exit_code = 0
            /\ NothingWritten

\* The FINALIZE request raised.
C2_Witness == Has("final_raise") /\ Done

\* C3: a user line that is exit, quit or q in any letter case ends the loop
\* at once: no request is issued for it, it is not in the transcript, and
\* the run writes no output file.
C3_ExitKeyword ==
    (user_input.set /\ IsExitAnyCase(user_input.val)) =>
        /\ Done
        /\ exit_code = 0
        /\ trace[Len(trace)] = "print_exiting"
        /\ trace[Len(trace) - 1] = "read_line"
        /\ \A i \in 1..Len(messages) :
               ~(messages[i].role = "user" /\ messages[i].content = user_input.val)
        /\ Count("request") + Count("final_request")
               = Cardinality({i \in 1..Len(messages) : messages[i].role = "user"})
        /\ NothingWritten

\* EXIT typed in capitals after one complete turn.
C3_Witness ==
    /\ user_input = Some(<<"E", "X", "I", "T">>)
    /\ Count("request") = 1
    /\ Done

\* C4: the process exits with status 1 only when no credential could be
\* resolved (the key-required message was printed after an empty answer to
\* the prompt); every other end of the run gives status 0.
C4_ExitCode ==
    Done => /\ exit_code \in {0, 1}
            /\ exit_code = 1 <=> (Has("print_key_required") /\ ~Truthy(api_key))

(***************************************************************************)
(* Text, read by position.                                                 *)
(***************************************************************************)
\* s without its leading and trailing atoms of chars.
Core(s, chars) ==
    LET keep == {i \in 1..Len(s) : s[i] \notin chars}
    IN  IF keep = {}
        THEN <<>>
        ELSE SubSeq(s, CHOOSE i \in keep : \A j \in keep : i <= j,
                       CHOOSE i \in keep : \A j \in keep : j <= i)

IsBlank(l) == \A i \in 1..Len(l) : l[i] \in Whitespace
IsComment(l) == l # <<>> /\ l[1] = "#"
HasEquals(l) == \E i \in 1..Len(l) : l[i] = "="
NamesKey(l) == \E i \in 1..Len(l) : l[i] = KEY

\* The line is OPENAI_API_KEY=value, possibly indented.
IsKeyLine(l) ==
    LET t == Core(l, Whitespace)
    IN  Len(t) >= 2 /\ t[1] = KEY /\ t[2] = "="
KeyLineValue(l) == LET t == Core(l, Whitespace) IN SubSeq(t, 3, Len(t))

\* The index of the first OPENAI_API_KEY line of the file, 0 when none.
FirstKeyLine(lines) ==
    LET ks == {i \in 1..Len(lines) : IsKeyLine(lines[i])}
    IN  IF ks = {} THEN 0 ELSE CHOOSE i \in ks : \A j \in ks : i <= j

\* One layer of matching quotes removed, when there is one.
Unquote1(v) ==
    IF Len(v) >= 2 /\ v[1] \in Quotes /\ v[Len(v)] = v[1]
    THEN SubSeq(v, 2, Len(v) - 1)
    ELSE v

FirstMarker(r, tag) ==
    LET ms == {i \in 1..(Len(r) - 1) : r[i] = FENCE /\ r[i + 1] = tag}
    IN  IF ms = {} THEN 0 ELSE CHOOSE i \in ms : \A j \in ms : i <= j

\* The trimmed text between the first marker with the tag and the next
\* triple backtick, or the end of the reply when no triple backtick follows.
BlockAfter(r, tag) ==
    LET i == FirstMarker(r, tag)
        closes == {j \in (i + 2)..Len(r) : r[j] = FENCE}
        close == IF closes = {} THEN Len(r) + 1
                 ELSE CHOOSE j \in closes : \A k \in closes : j <= k
    IN  Core(SubSeq(r, i + 2, close - 1), Whitespace)

\* The docker-compose block whenever its marker occurs, else the yaml block.
ComposeMarkerFirst(r) ==
    IF FirstMarker(r, "docker-compose") # 0 THEN BlockAfter(r, "docker-compose")
    ELSE IF FirstMarker(r, "yaml") # 0 THEN BlockAfter(r, "yaml")
    ELSE <<>>

\* The docker-compose block when it is not empty, else the yaml block.
ComposeYamlFallback(r) ==
    IF FirstMarker(r, "docker-compose") # 0 /\ BlockAfter(r, "docker-compose") # <<>>
    THEN BlockAfter(r, "docker-compose")
    ELSE IF FirstMarker(r, "yaml") # 0 THEN BlockAfter(r, "yaml")
    ELSE <<>>

\* C6 as stated: the configuration text is the trimmed text between the
\* first docker-compose fence marker and the next triple backtick, and the
\* yaml marker's block is used if and only if the docker-compose marker does
\* not occur in the reply.
C6_YamlOnlyWithoutMarker ==
    generation_response.set =>
        extracted.docker_compose_content = ComposeMarkerFirst(generation_response.val)

\* C6, amended: the configuration text is the trimmed text between the first
\* docker-compose fence marker and the next triple backtick (the end of the
\* reply when none follows); the yaml marker's block, read the same way, is
\* used if and only if the yaml marker occurs and the docker-compose marker
\* is absent or its block is empty after trimming.
C6_YamlWhenComposeEmpty ==
    generation_response.set =>
        extracted.docker_compose_content = ComposeYamlFallback(generation_response.val)

\* An empty docker-compose block followed by a yaml block holding FOO.
C6_Witness ==
    /\ generation_response = Some(<<FENCE, "docker-compose", FENCE, "yaml", "FOO">>)
    /\ extracted.docker_compose_content = <<"FOO">>

\* C7 as stated: after a FINALIZE request that returns a reply, the
\* configuration file is written with the extracted text (empty when the
\* reply holds no recognized marker) and the environment file is written if
\* and only if an env fence segment was found in the reply.
C7_EnvIffMarker ==
    generation_response.set =>
        LET r == generation_response.val
        IN  /\ generated.compose = Some(ComposeYamlFallback(r))
            /\ Count("write_compose") = 1
            /\ generated.env.set <=> FirstMarker(r, "env") # 0

\* C7, amended: after a FINALIZE request that returns a reply, the
\* configuration file is written with the extracted text (empty when the
\* reply holds no recognized marker) and the environment file is written if
\* and only if the env marker occurs in the reply and the trimmed text of its
\* block is not empty; it then holds that text.
C7_EnvIffNonEmpty ==
    generation_response.set =>
        LET r == generation_response.val
            e == IF FirstMarker(r, "env") # 0 THEN BlockAfter(r, "env") ELSE <<>>
        IN  /\ generated.compose = Some(ComposeYamlFallback(r))
            /\ Count("write_compose") = 1
            /\ (\A t \in {"docker-compose", "yaml"} : FirstMarker(r, t) = 0)
                   => generated.compose = Some(<<>>)
            /\ generated.env.set <=> e # <<>>
            /\ Has("write_env") <=> e # <<>>
            /\ generated.env.set => generated.env.val = e

\* A reply without any marker: an empty configuration file, no env file.
C7_Witness ==
    /\ generation_response = Some(<<"FOO", "\n", "FOO">>)
    /\ generated = [compose |-> Some(<<>>), env |-> None]

C9_TranscriptAppendOnly ==
    [][/\ messages # <<>> =>
            /\ Len(messages') >= Len(messages)
            /\ SubSeq(messages', 1, Len(messages)) = messages
       /\ messages' # <<>> =>
            /\ messages'[1].role = "system"
            /\ messages'[1].content =
                   system_prompt(docs'.env_vars_content, docs'.sample_compose_content)
            /\ \A i \in 2..Len(messages') : messages'[i].role # "system"]_vars

\* Two turns and the final prompt are in the transcript.
C9_Witness == pc = "final_request" /\ Len(messages) = 7

\* C10: an output file is written only after an assistant reply holding the
\* sentinel phrase was received and the one FINALIZE request after it has
\* returned; FINALIZE is entered at most once, each file is written at most
\* once, and no model request or conversation turn follows the writes.
C10_WriteOnce ==
    /\ Count("final_request") <= 1
    /\ Count("write_compose") <= 1
    /\ Count("write_env") <= 1
    /\ (generated.compose.set \/ generated.env.set) => Has("write_compose")
    /\ Has("final_request") =>
           \E m \in 1..Len(messages) :
               /\ messages[m].role = "assistant"
               /\ SentinelIn(messages[m].content)
               /\ \A n \in (m + 1)..Len(messages) : messages[n].role # "assistant"
    /\ \A i \in 1..Len(trace) :
           trace[i] \in WriteEventNames =>
               /\ \E j \in 1..(i - 1), k \in 1..(i - 1) :
                      j < k /\ trace[j] = "final_request" /\ trace[k] = "final_reply"
               /\ \A j \in (i + 1)..Len(trace) :
                      trace[j] \notin {"read_line", "request", "reply", "final_request",
                                       "final_reply"}

\* Both files were written in a run of two turns, which has ended.
C10_Witness ==
    /\ Done
    /\ Has("write_env")
    /\ generated.compose.set /\ generated.env.set
    /\ Count("request") = 2

====
